---- MODULE Spec2Model ----
(***************************************************************************)
(* Model of the constraint-evaluation core of V-ROLAI (virolai):           *)
(* half-open intervals, the Schedule container of committed placements,    *)
(* and the built-in dynamic constraint kinds evaluated against it.         *)
(*                                                                         *)
(* Axis values are f64 in the source.  They are modelled as the integers   *)
(* 0..MaxTime plus one value NaN for which every ordered comparison is     *)
(* false, as IEEE 754 defines it.                                          *)
(***************************************************************************)
EXTENDS Integers, Sequences, FiniteSets, TLC

\* Largest finite axis value of the model.
MaxTime == 2

\* f64::NAN, encoded as an integer outside 0..MaxTime so that it can be
\* compared for identity with the finite values.
NaN == -1

Values == (0..MaxTime) \cup {NaN}

\* Task ids used by the callers of the model.
TaskIds == {"task-a", "task-b", "task-c"}

\* Placeholder for "no task id" in result records.
NoId == "-"

---------------------------------------------------------------------------
\* f64 comparisons: any comparison with NaN as an operand is false.

is_nan(a) == a = NaN

Lt(a, b) == ~is_nan(a) /\ ~is_nan(b) /\ a < b

Le(a, b) == ~is_nan(a) /\ ~is_nan(b) /\ a <= b

Ge(a, b) == ~is_nan(a) /\ ~is_nan(b) /\ a >= b

Gt(a, b) == ~is_nan(a) /\ ~is_nan(b) /\ a > b

---------------------------------------------------------------------------
\* Interval<U>

\* Outcome of a construction whose assertion fails (the process aborts).
Panic == [panic |-> TRUE]

\* A slip in new: the assertion left out, so that any two values make an
\* Interval.
Interval_new_unchecked(start, end) == [start |-> start, end |-> end]

\* Interval::new: asserts start <= end.
Interval_new(start, end) ==
    IF Le(start, end) THEN [start |-> start, end |-> end] ELSE Panic

\* Every Interval value that can exist.
Intervals == {Interval_new(s, e) : s \in Values, e \in Values} \ {Panic}

\* Interval::duration
duration(iv) == iv.end - iv.start

\* Interval::contains
contains(iv, position) == Le(iv.start, position) /\ Lt(position, iv.end)

\* A plausible slip in overlaps: the second comparison made non-strict, so
\* that abutting intervals count as overlapping.
overlaps_nonstrict(self, other) ==
    Lt(self.start, other.end) /\ Le(other.start, self.end)

\* A plausible slip in overlaps: the second comparison tests the wrong
\* endpoint of self, so that some real overlaps are missed.
overlaps_wrong_endpoint(self, other) ==
    Lt(self.start, other.end) /\ Lt(other.start, self.start)

\* Interval::overlaps
overlaps(self, other) ==
    Lt(self.start, other.end) /\ Lt(other.start, self.end)

\* Option<Interval>
None == [some |-> FALSE]

Some(v) == [some |-> TRUE, value |-> v]

\* A slip in intersection: the end is taken from the interval that ends
\* later, which gives max(ends) instead of min(ends).
intersection_max_end(self, other) ==
    IF overlaps(self, other)
    THEN LET start == IF Gt(self.start, other.start) THEN self.start ELSE other.start
             end   == IF Lt(self.end, other.end) THEN other.end ELSE self.end
         IN  Some(Interval_new(start, end))
    ELSE None

\* Interval::intersection
intersection(self, other) ==
    IF overlaps(self, other)
    THEN LET start == IF Gt(self.start, other.start) THEN self.start ELSE other.start
             end   == IF Lt(self.end, other.end) THEN self.end ELSE other.end
         IN  Some(Interval_new(start, end))
    ELSE None

\* Interval::can_fit
can_fit(iv, start_position, size) ==
    contains(iv, start_position) /\ Le(start_position + size, iv.end)

---------------------------------------------------------------------------
\* IntervalSet<U>: an ordered sequence of intervals.

\* IntervalSet::new
IntervalSet_new == << >>

\* IntervalSet::from(Interval)
IntervalSet_from(iv) == << iv >>

---------------------------------------------------------------------------
\* Schedule<U>: the committed placements, each [id, interval].

\* Schedule::new
Schedule_new == {}

\* Schedule::contains_task
contains_task(sched, task_id) == \E p \in sched : p.id = task_id

\* Schedule::get_interval
get_interval(sched, task_id) ==
    IF contains_task(sched, task_id)
    THEN Some((CHOOSE p \in sched : p.id = task_id).interval)
    ELSE None

\* Schedule::is_empty
is_empty(sched) == sched = {}

\* Result<(), ScheduleError> of add, together with the Schedule it leaves.
\* new_id holds the id the error variant carries first (DuplicateTaskId(id),
\* OverlapsExisting { new_id, .. }), existing_id the second one.
AddOutcome(err, new_id, existing_id, sched) ==
    [err |-> err, new_id |-> new_id, existing_id |-> existing_id,
     schedule |-> sched]

\* A slip in add: the placement is inserted before the overlap check, so a
\* failing call leaves it behind.
add_partial(sched, task_id, interval) ==
    IF contains_task(sched, task_id)
    THEN {AddOutcome("DuplicateTaskId", task_id, NoId, sched)}
    ELSE IF is_nan(interval.start) \/ is_nan(interval.end)
    THEN {AddOutcome("NaNTime", NoId, NoId, sched)}
    ELSE IF \E p \in sched : overlaps(interval, p.interval)
    THEN {AddOutcome("OverlapsExisting", task_id, p.id,
                     sched \cup {[id |-> task_id, interval |-> interval]}) :
            p \in {q \in sched : overlaps(interval, q.interval)}}
    ELSE {AddOutcome("Ok", NoId, NoId,
                     sched \cup {[id |-> task_id, interval |-> interval]})}

\* A slip in add: a successful add evicts the placements that start later.
add_evicting(sched, task_id, interval) ==
    IF contains_task(sched, task_id)
    THEN {AddOutcome("DuplicateTaskId", task_id, NoId, sched)}
    ELSE IF is_nan(interval.start) \/ is_nan(interval.end)
    THEN {AddOutcome("NaNTime", NoId, NoId, sched)}
    ELSE IF \E p \in sched : overlaps(interval, p.interval)
    THEN {AddOutcome("OverlapsExisting", task_id, p.id, sched) :
            p \in {q \in sched : overlaps(interval, q.interval)}}
    ELSE {AddOutcome("Ok", NoId, NoId,
                     {p \in sched : ~Gt(p.interval.start, interval.start)}
                        \cup {[id |-> task_id, interval |-> interval]})}

\* Schedule::add: the set of outcomes the call may have.  When the new
\* interval overlaps several placements, any one of them may be reported.
add(sched, task_id, interval) ==
    IF contains_task(sched, task_id)
    THEN {AddOutcome("DuplicateTaskId", task_id, NoId, sched)}
    ELSE IF is_nan(interval.start) \/ is_nan(interval.end)
    THEN {AddOutcome("NaNTime", NoId, NoId, sched)}
    ELSE IF \E p \in sched : overlaps(interval, p.interval)
    THEN {AddOutcome("OverlapsExisting", task_id, p.id, sched) :
            p \in {q \in sched : overlaps(interval, q.interval)}}
    ELSE {AddOutcome("Ok", NoId, NoId,
                     sched \cup {[id |-> task_id, interval |-> interval]})}

---------------------------------------------------------------------------
\* Dynamic constraints

\* SchedulingContext::new
SchedulingContext_new(sched, space) ==
    [schedule |-> sched, solution_space |-> space]


DynConstraintKinds == {"Dependence", "Consecutive", "Exclusive"}

\* A slip in Consecutive: the window is made to begin at the start of the
\* reference task's placement instead of its end.
compute_intervals_from_ref_start(kind, range, ref_task_id, ctx) ==
    CASE kind = "Dependence" ->
            IF contains_task(ctx.schedule, ref_task_id)
            THEN IntervalSet_from(range)
            ELSE IntervalSet_new
      [] kind = "Consecutive" ->
            LET ref == get_interval(ctx.schedule, ref_task_id) IN
            IF ref.some
            THEN LET ref_interval == ref.value
                     effective_start ==
                        IF Ge(range.start, ref_interval.start)
                        THEN range.start
                        ELSE ref_interval.start
                 IN  IF Lt(effective_start, range.end)
                     THEN IntervalSet_from(Interval_new(effective_start, range.end))
                     ELSE IntervalSet_new
            ELSE IntervalSet_new
      [] kind = "Exclusive" ->
            IF contains_task(ctx.schedule, ref_task_id)
            THEN IntervalSet_new
            ELSE IntervalSet_from(range)

\* A slip in Consecutive: the branches of effective_start exchanged, which
\* takes the smaller of the two bounds.
compute_intervals_min_start(kind, range, ref_task_id, ctx) ==
    CASE kind = "Dependence" ->
            IF contains_task(ctx.schedule, ref_task_id)
            THEN IntervalSet_from(range)
            ELSE IntervalSet_new
      [] kind = "Consecutive" ->
            LET ref == get_interval(ctx.schedule, ref_task_id) IN
            IF ref.some
            THEN LET ref_interval == ref.value
                     effective_start ==
                        IF Ge(range.start, ref_interval.end)
                        THEN ref_interval.end
                        ELSE range.start
                 IN  IF Lt(effective_start, range.end)
                     THEN IntervalSet_from(Interval_new(effective_start, range.end))
                     ELSE IntervalSet_new
            ELSE IntervalSet_new
      [] kind = "Exclusive" ->
            IF contains_task(ctx.schedule, ref_task_id)
            THEN IntervalSet_new
            ELSE IntervalSet_from(range)

\* A slip in the presence tests: Dependence and Exclusive exchanged.
compute_intervals_swapped(kind, range, ref_task_id, ctx) ==
    CASE kind = "Dependence" ->
            IF contains_task(ctx.schedule, ref_task_id)
            THEN IntervalSet_new
            ELSE IntervalSet_from(range)
      [] kind = "Consecutive" ->
            LET ref == get_interval(ctx.schedule, ref_task_id) IN
            IF ref.some
            THEN LET ref_interval == ref.value
                     effective_start ==
                        IF Ge(range.start, ref_interval.end)
                        THEN range.start
                        ELSE ref_interval.end
                 IN  IF Lt(effective_start, range.end)
                     THEN IntervalSet_from(Interval_new(effective_start, range.end))
                     ELSE IntervalSet_new
            ELSE IntervalSet_new
      [] kind = "Exclusive" ->
            IF contains_task(ctx.schedule, ref_task_id)
            THEN IntervalSet_from(range)
            ELSE IntervalSet_new

\* <DynConstraintKind as DynamicConstraint>::compute_intervals
compute_intervals(kind, range, ref_task_id, ctx) ==
    CASE kind = "Dependence" ->
            IF contains_task(ctx.schedule, ref_task_id)
            THEN IntervalSet_from(range)
            ELSE IntervalSet_new
      [] kind = "Consecutive" ->
            LET ref == get_interval(ctx.schedule, ref_task_id) IN
            IF ref.some
            THEN LET ref_interval == ref.value
                     effective_start ==
                        IF Ge(range.start, ref_interval.end)
                        THEN range.start
                        ELSE ref_interval.end
                 IN  IF Lt(effective_start, range.end)
                     THEN IntervalSet_from(Interval_new(effective_start, range.end))
                     ELSE IntervalSet_new
            ELSE IntervalSet_new
      [] kind = "Exclusive" ->
            IF contains_task(ctx.schedule, ref_task_id)
            THEN IntervalSet_new
            ELSE IntervalSet_from(range)

---------------------------------------------------------------------------
\* SolutionSpace<U>: the static windows of each registered task id, each
\* entry [id, intervals].

\* SolutionSpace::new
SolutionSpace_new == {}

\* SolutionSpace::set_intervals
set_intervals(space, task_id, intervals) ==
    {e \in space : e.id # task_id} \cup {[id |-> task_id, intervals |-> intervals]}

\* SolutionSpace::get_intervals
get_intervals(space, task_id) ==
    IF \E e \in space : e.id = task_id
    THEN Some((CHOOSE e \in space : e.id = task_id).intervals)
    ELSE None

\* The solution space of the run: built before the scheduling loop by
\* set_intervals, as the tests' make_space does, with an entry for one task.
InitialSolutionSpace ==
    set_intervals(SolutionSpace_new, "task-a", << Interval_new(0, MaxTime) >>)

---------------------------------------------------------------------------
\* The state of a scheduling run.

VARIABLES
    schedule,        \* the Schedule owned by the outer loop
    solution_space,  \* the static SolutionSpace
    result           \* the last call made and what it returned

vars == << schedule, solution_space, result >>

NoResult ==
    [op |-> "none", task_id |-> NoId, interval |-> Interval_new(0, 0),
     err |-> "-", new_id |-> NoId, existing_id |-> NoId, kind |-> "-", out |-> << >>]

Init ==
    /\ schedule = Schedule_new
    /\ solution_space = InitialSolutionSpace
    /\ result = NoResult

\* The outer loop calls schedule.add(task_id, interval).
Add(task_id, interval) ==
    \E o \in add(schedule, task_id, interval) :
        /\ schedule' = o.schedule
        /\ result' = [op |-> "add", task_id |-> task_id, interval |-> interval,
                      err |-> o.err, new_id |-> o.new_id,
                      existing_id |-> o.existing_id,
                      kind |-> "-", out |-> << >>]
        /\ UNCHANGED solution_space

\* A slip in an evaluation: Consecutive takes the reference task's placement
\* out of the Schedule instead of reading it.
EvaluateTaking(kind, range, ref_task_id) ==
    /\ result' = [op |-> "eval", task_id |-> ref_task_id, interval |-> range,
                  err |-> "-", new_id |-> NoId, existing_id |-> NoId, kind |-> kind,
                  out |-> compute_intervals(kind, range, ref_task_id,
                      SchedulingContext_new(schedule, solution_space))]
    /\ schedule' = IF kind = "Consecutive"
                   THEN {p \in schedule : p.id # ref_task_id}
                   ELSE schedule
    /\ UNCHANGED solution_space

\* kind.compute_intervals(range, ref_task_id, &SchedulingContext::new(&schedule,
\* &solution_space)): the context lends both immutably.
Evaluate(kind, range, ref_task_id) ==
    /\ result' = [op |-> "eval", task_id |-> ref_task_id, interval |-> range,
                  err |-> "-", new_id |-> NoId, existing_id |-> NoId, kind |-> kind,
                  out |-> compute_intervals(kind, range, ref_task_id,
                      SchedulingContext_new(schedule, solution_space))]
    /\ UNCHANGED << schedule, solution_space >>

AddStep == \E task_id \in TaskIds, interval \in Intervals : Add(task_id, interval)

EvaluateStep ==
    \E kind \in DynConstraintKinds, range \in Intervals, ref_task_id \in TaskIds :
        Evaluate(kind, range, ref_task_id)

Next == AddStep \/ EvaluateStep

Spec == Init /\ [][Next]_vars

---------------------------------------------------------------------------
\* Notions the properties are stated with.

\* The half-open overlap test on two ranges, in plain arithmetic.
HalfOpenOverlap(a, b) == a.start < b.end /\ b.start < a.end

\* The two ranges share exactly a boundary.
Touch(a, b) == a.start = b.end \/ a.end = b.start

PlacedIds == {p.id : p \in schedule}

Max(a, b) == IF a >= b THEN a ELSE b

---------------------------------------------------------------------------
\* C1: after any sequence of add calls from the empty Schedule, no task id is
\* stored twice and the placements of two different task ids never overlap
\* under the half-open overlap test.
C1_NoOverlapUniqueIds ==
    \A p \in schedule : \A q \in schedule :
        /\ (p # q => p.id # q.id)
        /\ (p.id # q.id => ~HalfOpenOverlap(p.interval, q.interval))

\* C1 witness: two abutting placements are stored and a later add has been
\* refused for overlapping.
C1_Witness ==
    /\ result.op = "add"
    /\ result.err = "OverlapsExisting"
    /\ \E p \in schedule : \E q \in schedule :
          /\ p.id # q.id
          /\ p.interval.end = q.interval.start
          /\ duration(p.interval) > 0
          /\ duration(q.interval) > 0

\* C2: a call of add that returns an error leaves the Schedule exactly as it
\* was before the call.
C2_FailedAddLeavesSchedule ==
    [][ (result'.op = "add" /\ result'.err # "Ok") => schedule' = schedule ]_vars

\* C2 witness: the Schedule holds one placement and an add under another id
\* has just failed with an overlap.
C2_Witness ==
    /\ result.op = "add"
    /\ result.err = "OverlapsExisting"
    /\ Cardinality(schedule) = 1
    /\ result.task_id \notin PlacedIds

\* C3: add under an id not yet present, of an interval overlapping at least
\* one placement, fails with OverlapsExisting whose new_id is the id passed
\* and whose existing_id names a placement that really overlaps the interval.
C3_OverlapReported ==
    [][ ( /\ result'.op = "add"
          /\ result'.task_id \notin PlacedIds
          /\ \E p \in schedule : HalfOpenOverlap(result'.interval, p.interval) )
        => ( /\ result'.err = "OverlapsExisting"
             /\ result'.new_id = result'.task_id
             /\ \E p \in schedule :
                   /\ p.id = result'.existing_id
                   /\ HalfOpenOverlap(result'.interval, p.interval) ) ]_vars

\* C3 witness: an add under a fresh id was refused whose interval overlaps
\* two placements, one of which is reported.
C3_Witness ==
    /\ result.op = "add"
    /\ result.err = "OverlapsExisting"
    /\ result.new_id = result.task_id
    /\ result.task_id \notin PlacedIds
    /\ Cardinality({p \in schedule :
                      HalfOpenOverlap(result.interval, p.interval)}) = 2

\* C4: the Schedule starts empty, a successful add adds exactly one
\* placement, and a task id once contained stays contained with the same
\* interval through every step.
C4_GrowOnly ==
    /\ is_empty(schedule)
    /\ [][ /\ (result'.op = "add" /\ result'.err = "Ok")
                => Cardinality(schedule') = Cardinality(schedule) + 1
           /\ \A id \in TaskIds :
                contains_task(schedule, id)
                => /\ contains_task(schedule', id)
                   /\ get_interval(schedule', id) = get_interval(schedule, id)
         ]_vars

\* C4 witness: a third placement has just been committed next to two
\* earlier ones.
C4_Witness ==
    /\ result.op = "add"
    /\ result.err = "Ok"
    /\ Cardinality(schedule) = 3
    /\ \A id \in TaskIds : contains_task(schedule, id)

\* C5: add under a fresh id succeeds when the interval touches a placement
\* at a boundary and overlaps no placement.
C5_AdjacentAccepted ==
    [][ ( /\ result'.op = "add"
          /\ result'.task_id \notin PlacedIds
          /\ \E p \in schedule : Touch(result'.interval, p.interval)
          /\ \A p \in schedule : ~HalfOpenOverlap(result'.interval, p.interval) )
        => result'.err = "Ok" ]_vars

\* C5 witness: an interval of positive width was added right after the end
\* of a placement of positive width.
C5_Witness ==
    /\ result.op = "add"
    /\ result.err = "Ok"
    /\ duration(result.interval) > 0
    /\ \E p \in schedule :
          /\ p.id # result.task_id
          /\ duration(p.interval) > 0
          /\ p.interval.end = result.interval.start

---------------------------------------------------------------------------
\* Evaluations of the dynamic constraint kinds.  An evaluation leaves the
\* Schedule as it is, so the Schedule of the state an evaluation has led to
\* is the Schedule it has read.

Evaluated(kind) == result.op = "eval" /\ result.kind = kind

\* C6: Dependence returns exactly the whole query range when the reference
\* task is in the Schedule, and the empty set otherwise.
C6_Dependence ==
    Evaluated("Dependence") =>
        result.out = IF result.task_id \in PlacedIds
                     THEN << result.interval >>
                     ELSE << >>

\* C6 witness: Dependence was evaluated on a placed reference task while
\* another task is not placed.
C6_Witness ==
    /\ Evaluated("Dependence")
    /\ result.task_id \in PlacedIds
    /\ PlacedIds # TaskIds
    /\ result.out = << result.interval >>

\* C7: Consecutive returns the empty set when the reference task is not
\* placed; when it is placed at [a_start, a_end) it returns the one interval
\* [max(range.start, a_end), range.end) if max(range.start, a_end) <
\* range.end, and the empty set otherwise.
C7_Consecutive ==
    Evaluated("Consecutive") =>
        /\ result.task_id \notin PlacedIds => result.out = << >>
        /\ \A p \in schedule :
              p.id = result.task_id =>
                 LET lower == Max(result.interval.start, p.interval.end) IN
                 result.out = IF lower < result.interval.end
                              THEN << [start |-> lower, end |-> result.interval.end] >>
                              ELSE << >>

\* C7 witness: the reference task's placement ends strictly inside the query
\* range, and the part of the range after it is returned.
C7_Witness ==
    /\ Evaluated("Consecutive")
    /\ \E p \in schedule :
          /\ p.id = result.task_id
          /\ result.interval.start < p.interval.end
          /\ p.interval.end < result.interval.end
          /\ result.out = << [start |-> p.interval.end, end |-> result.interval.end] >>

\* C8: Exclusive returns exactly the whole query range when the reference
\* task is not in the Schedule, and the empty set when it is.
C8_Exclusive ==
    Evaluated("Exclusive") =>
        result.out = IF result.task_id \in PlacedIds
                     THEN << >>
                     ELSE << result.interval >>

\* C8 witness: Exclusive was evaluated on an absent reference task while
\* other tasks are placed.
C8_Witness ==
    /\ Evaluated("Exclusive")
    /\ result.task_id \notin PlacedIds
    /\ PlacedIds # {}
    /\ result.out = << result.interval >>

\* C9 as stated: when the reference task is placed and the query range
\* starts at or after the end of its placement, Consecutive returns the
\* query range itself, whatever the width of the range.
C9_FullRangeAnyWidth ==
    Evaluated("Consecutive") =>
        \A p \in schedule :
            (p.id = result.task_id /\ result.interval.start >= p.interval.end)
            => result.out = << result.interval >>

\* C9 amended: in that case Consecutive returns the query range itself when
\* the range has positive width, and the empty set when it has zero width.
C9_FullRangePositiveWidth ==
    Evaluated("Consecutive") =>
        \A p \in schedule :
            (p.id = result.task_id /\ result.interval.start >= p.interval.end)
            => result.out = IF duration(result.interval) > 0
                            THEN << result.interval >>
                            ELSE << >>

\* C9 witness: a query range of positive width that starts strictly after
\* the end of the reference task's placement is returned whole.
C9_Witness ==
    /\ Evaluated("Consecutive")
    /\ duration(result.interval) > 0
    /\ result.out = << result.interval >>
    /\ \E p \in schedule :
          p.id = result.task_id /\ result.interval.start > p.interval.end

---------------------------------------------------------------------------
\* The interval algebra on its own: one call of Interval::new, overlaps,
\* intersection, or of Consecutive against a Schedule holding one placement,
\* on arguments drawn from the values 0..MaxCoord and NaN.

\* Largest finite value of the arguments of the interval algebra.
MaxCoord == 3

Coords == (0..MaxCoord) \cup {NaN}

CoordIntervals == {Interval_new(s, e) : s \in Coords, e \in Coords} \ {Panic}

\* The calls to make, as result records: the arguments, no outcome yet.
IntervalCalls ==
    {[op |-> "call", fn |-> "new", start |-> s, end |-> e] :
        s \in Coords, e \in Coords}
    \cup {[op |-> "call", fn |-> f, a |-> a, b |-> b] :
        f \in {"overlaps", "intersection"}, a \in CoordIntervals, b \in CoordIntervals}
    \cup {[op |-> "call", fn |-> "consecutive", a |-> a] : a \in CoordIntervals}

\* A Schedule after one successful add of "task-a".
OnePlacementSchedules ==
    UNION {{o.schedule : o \in add(Schedule_new, "task-a", iv)} : iv \in CoordIntervals}

InitInterval ==
    /\ schedule \in OnePlacementSchedules
    /\ solution_space = InitialSolutionSpace
    /\ result \in IntervalCalls

\* Interval::new(start, end)
CallNew ==
    /\ result.op = "call" /\ result.fn = "new"
    /\ result' = [result EXCEPT !.op = "return"]
                    @@ [out |-> Interval_new(result.start, result.end)]
    /\ UNCHANGED << schedule, solution_space >>

\* a.overlaps(&b)
CallOverlaps ==
    /\ result.op = "call" /\ result.fn = "overlaps"
    /\ result' = [result EXCEPT !.op = "return"]
                    @@ [out |-> overlaps(result.a, result.b)]
    /\ UNCHANGED << schedule, solution_space >>

\* a.intersection(&b)
CallIntersection ==
    /\ result.op = "call" /\ result.fn = "intersection"
    /\ result' = [result EXCEPT !.op = "return"]
                    @@ [out |-> intersection(result.a, result.b)]
    /\ UNCHANGED << schedule, solution_space >>

\* DynConstraintKind::Consecutive.compute_intervals(a, "task-a", &ctx)
CallConsecutive ==
    /\ result.op = "call" /\ result.fn = "consecutive"
    /\ result' = [result EXCEPT !.op = "return"]
                    @@ [out |-> compute_intervals("Consecutive", result.a, "task-a",
                                    SchedulingContext_new(schedule, solution_space))]
    /\ UNCHANGED << schedule, solution_space >>

NextInterval == CallNew \/ CallOverlaps \/ CallIntersection \/ CallConsecutive

SpecInterval == InitInterval /\ [][NextInterval]_vars

Returned(fn) == result.op = "return" /\ result.fn = fn

Min(a, b) == IF a <= b THEN a ELSE b

\* start <= end on two f64 values, in plain arithmetic.
Ordered(start, end) == start # NaN /\ end # NaN /\ start <= end

\* C11: a.overlaps(b) = b.overlaps(a), and a.overlaps(b) is false when
\* a.end = b.start.
C11_OverlapsSymmetric ==
    Returned("overlaps") =>
        /\ result.out = overlaps(result.b, result.a)
        /\ result.a.end = result.b.start => result.out = FALSE

\* C11 witness: overlaps was called on two intervals of positive width, the
\* first ending where the second starts, and returned false.
C11_Witness ==
    /\ Returned("overlaps")
    /\ result.a.end = result.b.start
    /\ duration(result.a) > 0
    /\ duration(result.b) > 0
    /\ result.out = FALSE

\* C12: a.overlaps(b) is true exactly when a and b share a point, that is,
\* when some position p has a.contains(p) and b.contains(p).
C12_OverlapsIffSharedPoint ==
    Returned("overlaps") =>
        (result.out <=> \E p \in Coords : contains(result.a, p) /\ contains(result.b, p))

\* C13: a.intersection(b) is None exactly when a.overlaps(b) is false, and is
\* otherwise the interval [max(a.start, b.start), min(a.end, b.end)).
C13_Intersection ==
    Returned("intersection") =>
        /\ ~result.out.some <=> ~overlaps(result.a, result.b)
        /\ result.out.some =>
              result.out.value = [start |-> Max(result.a.start, result.b.start),
                                  end   |-> Min(result.a.end, result.b.end)]

\* C13 witness: two intervals that overlap without either containing the
\* other were intersected, which gave their common part.
C13_Witness ==
    /\ Returned("intersection")
    /\ result.a.start < result.b.start
    /\ result.b.start < result.a.end
    /\ result.a.end < result.b.end
    /\ result.out = Some([start |-> result.b.start, end |-> result.a.end])

\* An Interval value that exists: made by new without aborting, with
\* start <= end and so a duration end - start >= 0.
WellFormed(iv) ==
    /\ iv # Panic
    /\ Ordered(iv.start, iv.end)
    /\ duration(iv) = iv.end - iv.start
    /\ duration(iv) >= 0

\* C14: Interval::new succeeds exactly when start <= end and aborts when
\* start > end, and every Interval it makes, those made inside intersection
\* and inside Consecutive included, has start <= end and a duration >= 0.
C14_ConstructedIntervalsOrdered ==
    /\ Returned("new") =>
          /\ result.out # Panic <=> Ordered(result.start, result.end)
          /\ (result.start # NaN /\ result.end # NaN /\ result.start > result.end)
                => result.out = Panic
          /\ result.out # Panic => WellFormed(result.out)
    /\ (Returned("intersection") /\ result.out.some) => WellFormed(result.out.value)
    /\ Returned("consecutive") =>
          \A i \in DOMAIN result.out : WellFormed(result.out[i])

\* C14 witness: new was called with start > end and aborted.
C14_Witness ==
    /\ Returned("new")
    /\ result.start # NaN
    /\ result.end # NaN
    /\ result.start > result.end
    /\ result.out = Panic

---------------------------------------------------------------------------
\* is_canonical on its own: one call on a sequence of at most MaxLen
\* intervals.

\* Longest sequence of intervals given to is_canonical.
MaxLen == 3

\* A slip in is_canonical: only the overlap test is made, the comparison of
\* the previous end with the next start left out.
is_canonical_overlap_only(intervals) ==
    \A i \in 1..(Len(intervals) - 1) :
        LET prev == intervals[i]
            curr == intervals[i + 1]
        IN  ~overlaps(curr, prev)

\* is_canonical: every window of two consecutive intervals passes the test.
is_canonical(intervals) ==
    \A i \in 1..(Len(intervals) - 1) :
        LET prev == intervals[i]
            curr == intervals[i + 1]
        IN  ~overlaps(curr, prev) /\ Le(prev.end, curr.start)

IntervalSeqs == UNION {[1..n -> Intervals] : n \in 0..MaxLen}

InitCanonical ==
    /\ schedule = Schedule_new
    /\ solution_space = InitialSolutionSpace
    /\ result \in {[op |-> "call", fn |-> "is_canonical", intervals |-> q] :
                      q \in IntervalSeqs}

\* is_canonical(&intervals)
CallIsCanonical ==
    /\ result.op = "call" /\ result.fn = "is_canonical"
    /\ result' = [result EXCEPT !.op = "return"]
                    @@ [out |-> is_canonical(result.intervals)]
    /\ UNCHANGED << schedule, solution_space >>

NextCanonical == CallIsCanonical

SpecCanonical == InitCanonical /\ [][NextCanonical]_vars

SortedByStart(q) ==
    \A i \in DOMAIN q : \A j \in DOMAIN q : i < j => q[i].start <= q[j].start

NoTwoOverlap(q) ==
    \A i \in DOMAIN q : \A j \in DOMAIN q : i # j => ~overlaps(q[i], q[j])

EachEndsBeforeNext(q) ==
    \A i \in DOMAIN q : (i + 1) \in DOMAIN q => q[i].end <= q[i + 1].start

\* C15 as stated: is_canonical returns true exactly when the sequence is
\* sorted ascending by start and no two of its intervals overlap.
C15_CanonicalIffSortedDisjoint ==
    Returned("is_canonical") =>
        (result.out <=> (SortedByStart(result.intervals) /\ NoTwoOverlap(result.intervals)))

\* C15 amended: is_canonical returns true exactly when every interval ends
\* at or before the start of the next; a sequence it accepts is sorted
\* ascending by start with no two intervals overlapping, and it accepts
\* every such sequence whose intervals all have positive width.
C15_CanonicalIffEndsBeforeNext ==
    Returned("is_canonical") =>
        /\ result.out <=> EachEndsBeforeNext(result.intervals)
        /\ result.out =>
              SortedByStart(result.intervals) /\ NoTwoOverlap(result.intervals)
        /\ ( /\ \A i \in DOMAIN result.intervals : duration(result.intervals[i]) > 0
             /\ SortedByStart(result.intervals)
             /\ NoTwoOverlap(result.intervals) )
           => result.out

\* C15 witness: a sequence of two abutting intervals of positive width was
\* accepted.
C15_Witness ==
    /\ Returned("is_canonical")
    /\ Len(result.intervals) = 2
    /\ duration(result.intervals[1]) > 0
    /\ duration(result.intervals[2]) > 0
    /\ result.intervals[1].end = result.intervals[2].start
    /\ result.out = TRUE

---------------------------------------------------------------------------
\* Metrics: compute_est, compute_deadline, compute_flexibility.

\* Task: what the metrics read of it is its size on the axis.
Task_new(name, size) == [name |-> name, size |-> size]

\* Task::size_on_axis
size_on_axis(task) == task.size

RECURSIVE est_scan(_, _, _, _)
\* The loop of compute_est from the i-th window on: continue, break, or
\* return at the first window whose part inside the horizon holds the task.
est_scan(intervals, i, task_size, horizon) ==
    IF i > Len(intervals) THEN None
    ELSE LET interval == intervals[i] IN
         IF Le(interval.end, horizon.start)
         THEN est_scan(intervals, i + 1, task_size, horizon)
         ELSE IF Ge(interval.start, horizon.end)
         THEN None
         ELSE LET x == intersection(interval, horizon) IN
              IF x.some /\ Ge(duration(x.value), task_size)
              THEN Some(x.value.start)
              ELSE est_scan(intervals, i + 1, task_size, horizon)

RECURSIVE est_scan_strict_fit(_, _, _, _)
\* The loop of compute_est with > in place of >= in the fit test.
est_scan_strict_fit(intervals, i, task_size, horizon) ==
    IF i > Len(intervals) THEN None
    ELSE LET interval == intervals[i] IN
         IF Le(interval.end, horizon.start)
         THEN est_scan_strict_fit(intervals, i + 1, task_size, horizon)
         ELSE IF Ge(interval.start, horizon.end)
         THEN None
         ELSE LET x == intersection(interval, horizon) IN
              IF x.some /\ Gt(duration(x.value), task_size)
              THEN Some(x.value.start)
              ELSE est_scan_strict_fit(intervals, i + 1, task_size, horizon)

\* A slip in compute_est: the fit test made strict, so that a window the
\* task fills exactly is passed over.
compute_est_strict_fit(task, task_id, space, horizon) ==
    LET intervals == get_intervals(space, task_id) IN
    IF ~intervals.some THEN None
    ELSE est_scan_strict_fit(intervals.value, 1, size_on_axis(task), horizon)

\* A slip in compute_est: a task id without an entry is taken to be
\* unconstrained, its window the whole horizon.
compute_est_unconstrained(task, task_id, space, horizon) ==
    LET intervals == get_intervals(space, task_id) IN
    IF ~intervals.some THEN est_scan(<< horizon >>, 1, size_on_axis(task), horizon)
    ELSE est_scan(intervals.value, 1, size_on_axis(task), horizon)

\* compute_est
compute_est(task, task_id, space, horizon) ==
    LET intervals == get_intervals(space, task_id) IN
    IF ~intervals.some THEN None
    ELSE est_scan(intervals.value, 1, size_on_axis(task), horizon)

RECURSIVE deadline_scan(_, _, _, _)
\* The loop of compute_deadline over intervals.iter().rev(), from the i-th
\* window down.
deadline_scan(intervals, i, task_size, horizon) ==
    IF i < 1 THEN None
    ELSE LET interval == intervals[i] IN
         IF Ge(interval.start, horizon.end)
         THEN deadline_scan(intervals, i - 1, task_size, horizon)
         ELSE IF Le(interval.end, horizon.start)
         THEN None
         ELSE LET x == intersection(interval, horizon) IN
              IF x.some /\ Ge(duration(x.value), task_size)
              THEN Some(x.value.end - task_size)
              ELSE deadline_scan(intervals, i - 1, task_size, horizon)

RECURSIVE deadline_scan_forward(_, _, _, _)
\* The loop of compute_deadline run from the first window up.
deadline_scan_forward(intervals, i, task_size, horizon) ==
    IF i > Len(intervals) THEN None
    ELSE LET interval == intervals[i] IN
         IF Le(interval.end, horizon.start)
         THEN deadline_scan_forward(intervals, i + 1, task_size, horizon)
         ELSE IF Ge(interval.start, horizon.end)
         THEN None
         ELSE LET x == intersection(interval, horizon) IN
              IF x.some /\ Ge(duration(x.value), task_size)
              THEN Some(x.value.end - task_size)
              ELSE deadline_scan_forward(intervals, i + 1, task_size, horizon)

\* A slip in compute_deadline: the windows scanned forwards as in
\* compute_est, so that the first fitting window decides instead of the last.
compute_deadline_forward(task, task_id, space, horizon) ==
    LET intervals == get_intervals(space, task_id) IN
    IF ~intervals.some THEN None
    ELSE deadline_scan_forward(intervals.value, 1, size_on_axis(task), horizon)

\* compute_deadline
compute_deadline(task, task_id, space, horizon) ==
    LET intervals == get_intervals(space, task_id) IN
    IF ~intervals.some THEN None
    ELSE deadline_scan(intervals.value, Len(intervals.value), size_on_axis(task), horizon)

\* The f64 flexibility, kept exact: every term added is a duration divided
\* by the same task size, so the sum is num / den with den the task size.
Ratio(num, den) == [num |-> num, den |-> den]

RECURSIVE flexibility_scan(_, _, _, _, _)
\* The loop of compute_flexibility from the i-th window on, the durations
\* added so far in acc.
flexibility_scan(intervals, i, task_size, horizon, acc) ==
    IF i > Len(intervals) THEN acc
    ELSE LET interval == intervals[i] IN
         IF Le(interval.end, horizon.start)
         THEN flexibility_scan(intervals, i + 1, task_size, horizon, acc)
         ELSE IF Ge(interval.start, horizon.end)
         THEN acc
         ELSE LET x == intersection(interval, horizon) IN
              IF x.some /\ Le(task_size, duration(x.value))
              THEN flexibility_scan(intervals, i + 1, task_size, horizon,
                                    acc + duration(x.value))
              ELSE flexibility_scan(intervals, i + 1, task_size, horizon, acc)

RECURSIVE flexibility_scan_no_fit_test(_, _, _, _, _)
\* The loop of compute_flexibility without the fit test.
flexibility_scan_no_fit_test(intervals, i, task_size, horizon, acc) ==
    IF i > Len(intervals) THEN acc
    ELSE LET interval == intervals[i] IN
         IF Le(interval.end, horizon.start)
         THEN flexibility_scan_no_fit_test(intervals, i + 1, task_size, horizon, acc)
         ELSE IF Ge(interval.start, horizon.end)
         THEN acc
         ELSE LET x == intersection(interval, horizon) IN
              IF x.some
              THEN flexibility_scan_no_fit_test(intervals, i + 1, task_size, horizon,
                                                acc + duration(x.value))
              ELSE flexibility_scan_no_fit_test(intervals, i + 1, task_size, horizon, acc)

\* A slip in compute_flexibility: every window inside the horizon is added,
\* whether the task fits in it or not.
compute_flexibility_no_fit_test(task, task_id, space, horizon) ==
    LET intervals == get_intervals(space, task_id) IN
    IF ~intervals.some THEN Ratio(0, 1)
    ELSE Ratio(flexibility_scan_no_fit_test(intervals.value, 1, size_on_axis(task),
                                            horizon, 0),
               size_on_axis(task))

\* compute_flexibility
compute_flexibility(task, task_id, space, horizon) ==
    LET intervals == get_intervals(space, task_id) IN
    IF ~intervals.some THEN Ratio(0, 1)
    ELSE Ratio(flexibility_scan(intervals.value, 1, size_on_axis(task), horizon, 0),
               size_on_axis(task))

---------------------------------------------------------------------------
\* The metrics on their own: one call of a metric for a task of positive
\* size, on a SolutionSpace that holds canonical windows for "task-a" or
\* holds nothing, and a horizon.

\* Largest task size.
MaxSize == 2

\* Largest axis value of windows and horizons.
MaxAxis == 4

\* Largest number of windows stored for a task.
MaxWindows == 2

TaskSizes == 1..MaxSize

AxisIntervals ==
    {Interval_new(s, e) : s \in 0..MaxAxis, e \in 0..MaxAxis} \ {Panic}

\* The window sequences a SolutionSpace stores: canonical ones.
CanonicalWindows ==
    {q \in UNION {[1..n -> AxisIntervals] : n \in 0..MaxWindows} : is_canonical(q)}

MetricSpaces ==
    {SolutionSpace_new}
    \cup {set_intervals(SolutionSpace_new, "task-a", q) : q \in CanonicalWindows}

MetricCalls ==
    {[op |-> "call", fn |-> f, task |-> Task_new(id, size), task_id |-> id,
      horizon |-> h] :
        f \in {"compute_est", "compute_deadline", "compute_flexibility"},
        id \in {"task-a", "task-b"}, size \in TaskSizes, h \in AxisIntervals}

InitMetrics ==
    /\ schedule = Schedule_new
    /\ solution_space \in MetricSpaces
    /\ result \in MetricCalls

\* compute_est(&task, task_id, &solution_space, horizon)
CallEst ==
    /\ result.op = "call" /\ result.fn = "compute_est"
    /\ result' = [result EXCEPT !.op = "return"]
                    @@ [out |-> compute_est(result.task, result.task_id,
                                            solution_space, result.horizon)]
    /\ UNCHANGED << schedule, solution_space >>

\* compute_deadline(&task, task_id, &solution_space, horizon)
CallDeadline ==
    /\ result.op = "call" /\ result.fn = "compute_deadline"
    /\ result' = [result EXCEPT !.op = "return"]
                    @@ [out |-> compute_deadline(result.task, result.task_id,
                                                 solution_space, result.horizon)]
    /\ UNCHANGED << schedule, solution_space >>

\* compute_flexibility(&task, task_id, &solution_space, horizon)
CallFlexibility ==
    /\ result.op = "call" /\ result.fn = "compute_flexibility"
    /\ result' = [result EXCEPT !.op = "return"]
                    @@ [out |-> compute_flexibility(result.task, result.task_id,
                                                    solution_space, result.horizon)]
    /\ UNCHANGED << schedule, solution_space >>

NextMetrics == CallEst \/ CallDeadline \/ CallFlexibility

SpecMetrics == InitMetrics /\ [][NextMetrics]_vars

\* The windows stored for the task of the call, none when it has no entry.
WindowsOf(id) ==
    IF \E e \in solution_space : e.id = id
    THEN (CHOOSE e \in solution_space : e.id = id).intervals
    ELSE << >>

HasEntry(id) == \E e \in solution_space : e.id = id

\* The starts t at which [t, t + size) lies inside the horizon and inside
\* one window.  The bounds of windows and horizon are whole numbers, so the
\* least and the greatest such start are whole numbers too.
FeasibleStarts(windows, size, horizon) ==
    {t \in 0..MaxAxis :
        /\ horizon.start <= t /\ t + size <= horizon.end
        /\ \E i \in DOMAIN windows :
              windows[i].start <= t /\ t + size <= windows[i].end}

\* The length of the part of window w inside the horizon.
ClippedDuration(w, horizon) ==
    Max(0, Min(w.end, horizon.end) - Max(w.start, horizon.start))

RECURSIVE SumFitting(_, _, _, _)
\* The sum of the clipped durations of the windows i.. that hold the task.
SumFitting(windows, i, size, horizon) ==
    IF i > Len(windows) THEN 0
    ELSE (IF ClippedDuration(windows[i], horizon) >= size
          THEN ClippedDuration(windows[i], horizon) ELSE 0)
         + SumFitting(windows, i + 1, size, horizon)

\* C16: for a task of positive size with canonical windows, compute_est
\* returns the least feasible start, and None exactly when there is none.
C16_EstIsEarliestStart ==
    (Returned("compute_est") /\ HasEntry(result.task_id)) =>
        LET starts == FeasibleStarts(WindowsOf(result.task_id), result.task.size,
                                     result.horizon)
        IN  /\ ~result.out.some <=> starts = {}
            /\ result.out.some =>
                  /\ result.out.value \in starts
                  /\ \A t \in starts : result.out.value <= t

\* C16 witness: the first window is too short for the task and a later one
\* holds it, at whose start compute_est puts the task.
C16_Witness ==
    /\ Returned("compute_est")
    /\ Len(WindowsOf(result.task_id)) >= 2
    /\ duration(WindowsOf(result.task_id)[1]) > 0
    /\ ClippedDuration(WindowsOf(result.task_id)[1], result.horizon) < result.task.size
    /\ result.out = Some(WindowsOf(result.task_id)[2].start)

\* C17: for a task of positive size with canonical windows, compute_deadline
\* returns the greatest feasible start, which is the end of the last fitting
\* window clipped to the horizon minus the task size, and None exactly when
\* there is no feasible start.
C17_DeadlineIsLatestStart ==
    (Returned("compute_deadline") /\ HasEntry(result.task_id)) =>
        LET starts == FeasibleStarts(WindowsOf(result.task_id), result.task.size,
                                     result.horizon)
        IN  /\ ~result.out.some <=> starts = {}
            /\ result.out.some =>
                  /\ result.out.value \in starts
                  /\ \A t \in starts : t <= result.out.value

\* C17 witness: two windows hold the task, and the deadline is the end of
\* the later one minus the task size.
C17_Witness ==
    /\ Returned("compute_deadline")
    /\ Len(WindowsOf(result.task_id)) = 2
    /\ \A i \in 1..2 :
          ClippedDuration(WindowsOf(result.task_id)[i], result.horizon) >= result.task.size
    /\ result.out = Some(WindowsOf(result.task_id)[2].end - result.task.size)

\* C18: for a task of positive size, compute_flexibility is the sum, over
\* the windows whose part inside the horizon is at least as long as the
\* task, of the length of that part divided by the size; so it is < 1
\* exactly when the task fits in no window clipped to the horizon.
C18_FlexibilityIsSumOfFits ==
    (Returned("compute_flexibility") /\ HasEntry(result.task_id)) =>
        LET windows == WindowsOf(result.task_id) IN
        /\ result.out.den = result.task.size
        /\ result.out.num = SumFitting(windows, 1, result.task.size, result.horizon)
        /\ result.out.num < result.out.den
              <=> \A i \in DOMAIN windows :
                     ClippedDuration(windows[i], result.horizon) < result.task.size

\* C18 witness: one window holds the task and another, inside the horizon
\* too, is too short for it and adds nothing.
C18_Witness ==
    /\ Returned("compute_flexibility")
    /\ result.out.num >= result.out.den
    /\ \E i \in DOMAIN WindowsOf(result.task_id) :
          /\ ClippedDuration(WindowsOf(result.task_id)[i], result.horizon) > 0
          /\ ClippedDuration(WindowsOf(result.task_id)[i], result.horizon) < result.task.size
    /\ \E i \in DOMAIN WindowsOf(result.task_id) :
          result.out.num = ClippedDuration(WindowsOf(result.task_id)[i], result.horizon)

\* C19: for a task id without an entry in the SolutionSpace, compute_est and
\* compute_deadline return None and compute_flexibility returns 0.
C19_NoEntry ==
    (result.op = "return" /\ ~HasEntry(result.task_id)) =>
        /\ result.fn = "compute_est" => result.out = None
        /\ result.fn = "compute_deadline" => result.out = None
        /\ result.fn = "compute_flexibility" => result.out.num = 0

\* C19 witness: compute_est returned None for "task-b", which has no entry,
\* while "task-a" has a window that would hold the task.
C19_Witness ==
    /\ Returned("compute_est")
    /\ ~HasEntry(result.task_id)
    /\ result.out = None
    /\ FeasibleStarts(WindowsOf("task-a"), result.task.size, result.horizon) # {}

---------------------------------------------------------------------------
\* A scheduling run with metrics: the outer loop adds placements and calls
\* the metrics for "task-a", always with the static horizon.

\* The solution spaces of such a run.
RunSpaces ==
    { InitialSolutionSpace,
      set_intervals(SolutionSpace_new, "task-a",
                    << Interval_new(0, 1), Interval_new(1, MaxTime) >>) }

\* The static horizon of the run.
RunHorizon == Interval_new(0, MaxTime)

Metrics == {"compute_est", "compute_deadline", "compute_flexibility"}

\* The metric named fn.
Metric(fn, task, task_id, space, horizon) ==
    CASE fn = "compute_est" -> compute_est(task, task_id, space, horizon)
      [] fn = "compute_deadline" -> compute_deadline(task, task_id, space, horizon)
      [] fn = "compute_flexibility" -> compute_flexibility(task, task_id, space, horizon)

InitRun ==
    /\ schedule = Schedule_new
    /\ solution_space \in RunSpaces
    /\ result = NoResult

\* The cursor of the outer loop: the end of the latest placement.
Cursor == IF schedule = {} THEN 0
          ELSE CHOOSE c \in {p.interval.end : p \in schedule} :
                  \A p \in schedule : p.interval.end <= c

\* A slip of the caller: the metric is given the remaining window, the
\* horizon cut at the cursor, instead of the static horizon.
RunMetricRemainingWindow(fn, task, task_id, horizon) ==
    /\ result' = [op |-> "return", fn |-> fn, task |-> task, task_id |-> task_id,
                  horizon |-> horizon,
                  out |-> Metric(fn, task, task_id, solution_space,
                                 Interval_new(Max(horizon.start, Min(Cursor, horizon.end)),
                                              horizon.end))]
    /\ UNCHANGED << schedule, solution_space >>

\* fn(&task, task_id, &solution_space, horizon) during the run.
RunMetric(fn, task, task_id, horizon) ==
    /\ result' = [op |-> "return", fn |-> fn, task |-> task, task_id |-> task_id,
                  horizon |-> horizon,
                  out |-> Metric(fn, task, task_id, solution_space, horizon)]
    /\ UNCHANGED << schedule, solution_space >>

MetricStep ==
    \E fn \in Metrics, size \in TaskSizes :
        RunMetric(fn, Task_new("task-a", size), "task-a", RunHorizon)

NextRun == AddStep \/ MetricStep

SpecRun == InitRun /\ [][NextRun]_vars

---------------------------------------------------------------------------
\* Static constraint tree (ConstraintExpr) and the interval set operations
\* its combinators use.

\* ConstraintError
ConstraintErrors == {"CannotAddChildToLeaf", "CannotAddChildToNot"}

NoConstraint == Interval_new(0, 0)

\* ConstraintExpr::Leaf(constraint), the constraint an IntervalConstraint
\* holding one interval
leaf(constraint) ==
    [kind |-> "Leaf", constraint |-> constraint, children |-> << >>]

\* ConstraintExpr::And / Or / Not with the given children
node(kind, children) ==
    [kind |-> kind, constraint |-> NoConstraint, children |-> children]

\* IntervalConstraint::compute_intervals: the part of the constraint's
\* interval inside the query range.
leaf_compute_intervals(constraint, range) ==
    LET x == intersection(constraint, range) IN
    IF x.some THEN IntervalSet_from(x.value) ELSE IntervalSet_new

\* Intersection of two canonical interval sequences: a two-pointer sweep
\* that keeps every pairwise intersection and advances the side that ends
\* first.
RECURSIVE compute_intersection_from(_, _, _, _)
compute_intersection_from(a, b, i, j) ==
    IF i > Len(a) \/ j > Len(b) THEN << >>
    ELSE LET x == intersection(a[i], b[j])
             rest == IF a[i].end <= b[j].end
                     THEN compute_intersection_from(a, b, i + 1, j)
                     ELSE compute_intersection_from(a, b, i, j + 1)
         IN  IF x.some THEN << x.value >> \o rest ELSE rest

compute_intersection(a, b) == compute_intersection_from(a, b, 1, 1)

\* Appends iv to the merged sequence acc, extending the last window when iv
\* overlaps it or is adjacent to it.
merge_into(acc, iv) ==
    IF acc # << >> /\ iv.start <= acc[Len(acc)].end
    THEN [acc EXCEPT ![Len(acc)] =
            Interval_new(acc[Len(acc)].start, Max(acc[Len(acc)].end, iv.end))]
    ELSE Append(acc, iv)

\* Union of two canonical interval sequences: the two are merged in order
\* of start and overlapping or adjacent windows are joined.
RECURSIVE compute_union_from(_, _, _, _, _)
compute_union_from(a, b, i, j, acc) ==
    IF i > Len(a) /\ j > Len(b) THEN acc
    ELSE IF j > Len(b) \/ (i <= Len(a) /\ a[i].start <= b[j].start)
    THEN compute_union_from(a, b, i + 1, j, merge_into(acc, a[i]))
    ELSE compute_union_from(a, b, i, j + 1, merge_into(acc, b[j]))

compute_union(a, b) == compute_union_from(a, b, 1, 1, << >>)

\* Complement of a canonical interval sequence within range: the gaps before,
\* between and after its windows.
RECURSIVE compute_complement_from(_, _, _, _)
compute_complement_from(a, i, cursor, range) ==
    IF i > Len(a)
    THEN IF cursor < range.end
         THEN << Interval_new(cursor, range.end) >>
         ELSE << >>
    ELSE LET gap == IF cursor < a[i].start
                    THEN << Interval_new(cursor, a[i].start) >>
                    ELSE << >>
         IN  gap \o compute_complement_from(a, i + 1, Max(cursor, a[i].end), range)

compute_complement(a, range) == compute_complement_from(a, 1, range.start, range)

\* ConstraintExpr::evaluate: a leaf asks its constraint; And folds the
\* intersection over its children starting from the full range; Or folds the
\* union starting from the empty set; Not complements its child's result
\* within the range.
RECURSIVE expr_evaluate(_, _)
RECURSIVE evaluate_and(_, _, _, _)
RECURSIVE evaluate_or(_, _, _, _)

evaluate_and(children, i, range, acc) ==
    IF i > Len(children) THEN acc
    ELSE evaluate_and(children, i + 1, range,
                      compute_intersection(acc, expr_evaluate(children[i], range)))

evaluate_or(children, i, range, acc) ==
    IF i > Len(children) THEN acc
    ELSE evaluate_or(children, i + 1, range,
                     compute_union(acc, expr_evaluate(children[i], range)))

expr_evaluate(expr, range) ==
    CASE expr.kind = "Leaf" -> leaf_compute_intervals(expr.constraint, range)
      [] expr.kind = "And" -> evaluate_and(expr.children, 1, range, IntervalSet_from(range))
      [] expr.kind = "Or" -> evaluate_or(expr.children, 1, range, IntervalSet_new)
      [] expr.kind = "Not" ->
            compute_complement(expr_evaluate(expr.children[1], range), range)

\* The outcome of add_child: the error, or "Ok", and the node afterwards.
AddChildOutcome(err, expr) == [err |-> err, expr |-> expr]

\* A slip in add_child: a Not node that has a child takes the new one in
\* its place.
add_child_replacing(expr, child) ==
    CASE expr.kind = "Leaf" -> AddChildOutcome("CannotAddChildToLeaf", expr)
      [] expr.kind = "Not" ->
            AddChildOutcome("Ok", [expr EXCEPT !.children = << child >>])
      [] OTHER ->
            AddChildOutcome("Ok", [expr EXCEPT !.children = Append(@, child)])

\* ConstraintExpr::add_child
add_child(expr, child) ==
    CASE expr.kind = "Leaf" -> AddChildOutcome("CannotAddChildToLeaf", expr)
      [] expr.kind = "Not" ->
            IF expr.children # << >>
            THEN AddChildOutcome("CannotAddChildToNot", expr)
            ELSE AddChildOutcome("Ok", [expr EXCEPT !.children = << child >>])
      [] OTHER ->
            AddChildOutcome("Ok", [expr EXCEPT !.children = Append(@, child)])

---------------------------------------------------------------------------
\* Building and evaluating constraint trees.

\* Largest number of children the model gives to one node.
MaxChildren == 2

\* Largest axis value of the trees' constraints and query ranges.
MaxPoint == 3

PointIntervals ==
    {Interval_new(s, e) : s \in 0..MaxPoint, e \in 0..MaxPoint} \ {Panic}

Leaves == {leaf(c) : c \in PointIntervals}

\* The nodes a tree starts from.
Roots == Leaves \cup {node(k, << >>) : k \in {"And", "Or", "Not"}}

\* The subtrees handed to add_child: the leaves, the negation of each leaf
\* of positive width, and the two empty combinators.
ChildExprs ==
    Leaves \cup {node("Not", << l >>) : l \in {x \in Leaves : duration(x.constraint) > 0}}
           \cup {node("And", << >>), node("Or", << >>)}

\* Every Not node of the tree has its child.
RECURSIVE Complete(_)
Complete(expr) ==
    /\ expr.kind = "Not" => Len(expr.children) = 1
    /\ \A i \in 1..Len(expr.children) : Complete(expr.children[i])

InitTree ==
    /\ schedule = Schedule_new
    /\ solution_space = SolutionSpace_new
    /\ result \in {[op |-> "return", fn |-> "new", expr |-> r, err |-> "Ok"] : r \in Roots}

\* result.expr.add_child(child)
AddChild(child) ==
    /\ result.op = "return" /\ result.fn \in {"new", "add_child"}
    /\ Len(result.expr.children) < MaxChildren
    /\ LET o == add_child(result.expr, child) IN
       result' = [op |-> "return", fn |-> "add_child", expr |-> o.expr, err |-> o.err]
    /\ UNCHANGED << schedule, solution_space >>

\* result.expr.evaluate(range)
EvaluateTree(range) ==
    /\ result.op = "return" /\ result.fn \in {"new", "add_child"}
    /\ Complete(result.expr)
    /\ result' = [op |-> "return", fn |-> "evaluate", expr |-> result.expr,
                  err |-> "Ok", range |-> range,
                  out |-> expr_evaluate(result.expr, range)]
    /\ UNCHANGED << schedule, solution_space >>

AddChildStep == \E child \in ChildExprs : AddChild(child)

EvaluateTreeStep == \E range \in PointIntervals : EvaluateTree(range)

NextTree == AddChildStep \/ EvaluateTreeStep

SpecTree == InitTree /\ [][NextTree]_vars

\* The unit cells [k, k+1) of the axis that the windows of q cover.
Cells(q) ==
    {k \in 0..(MaxPoint - 1) :
        \E i \in 1..Len(q) : q[i].start <= k /\ k + 1 <= q[i].end}

\* The cells covered by the result of child i of the evaluated node.
ChildCells(i) == Cells(expr_evaluate(result.expr.children[i], result.range))

\* No two consecutive windows of q overlap or touch.
Merged(q) == \A i \in 1..(Len(q) - 1) : q[i].end < q[i + 1].start

\* C21: the evaluation of a tree over any query range is canonical; an And
\* node covers exactly what the range and all its children cover (the full
\* range without children), an Or node what some child covers, with no two
\* windows overlapping or adjacent (nothing without children), and a Not
\* node what its child leaves uncovered of the range.
C21_CombinatorsCanonical ==
    Returned("evaluate") =>
        LET e == result.expr
            n == Len(e.children)
        IN  /\ is_canonical(result.out)
            /\ e.kind = "And" =>
                /\ Cells(result.out) =
                      {k \in Cells(<< result.range >>) : \A i \in 1..n : k \in ChildCells(i)}
                /\ n = 0 => result.out = << result.range >>
            /\ e.kind = "Or" =>
                /\ Cells(result.out) =
                      {k \in 0..(MaxPoint - 1) : \E i \in 1..n : k \in ChildCells(i)}
                /\ Merged(result.out)
                /\ n = 0 => result.out = << >>
            /\ e.kind = "Not" =>
                Cells(result.out) = Cells(<< result.range >>) \ ChildCells(1)

\* C21 witness: an And node over a Not child and another child evaluates to
\* two separate windows.
C21_Witness ==
    /\ Returned("evaluate")
    /\ result.expr.kind = "And"
    /\ Len(result.expr.children) = 2
    /\ \E i \in 1..2 : result.expr.children[i].kind = "Not"
    /\ Len(result.out) = 2
    /\ result.out[1].end < result.out[2].start
    /\ is_canonical(result.out)

\* C22: add_child on a Leaf fails with CannotAddChildToLeaf, on a Not node
\* that has a child with CannotAddChildToNot, both leaving the node as it
\* was; on an And or Or node it succeeds and appends the child, whatever the
\* number of children.
C22_AddChildErrors ==
    [][result'.fn = "add_child" =>
        LET e == result.expr IN
        /\ e.kind = "Leaf" =>
              result'.err = "CannotAddChildToLeaf" /\ result'.expr = e
        /\ (e.kind = "Not" /\ e.children # << >>) =>
              result'.err = "CannotAddChildToNot" /\ result'.expr = e
        /\ e.kind \in {"And", "Or"} =>
              /\ result'.err = "Ok"
              /\ result'.expr.kind = e.kind
              /\ Len(result'.expr.children) = Len(e.children) + 1
              /\ SubSeq(result'.expr.children, 1, Len(e.children)) = e.children
    ]_vars

\* C22 witness: a second add_child on a Not node has failed and the node
\* still holds its one child.
C22_Witness ==
    /\ Returned("add_child")
    /\ result.err = "CannotAddChildToNot"
    /\ result.expr.kind = "Not"
    /\ Len(result.expr.children) = 1

---------------------------------------------------------------------------
\* The dynamic kinds over a run of adds.

\* What kind returns for (range, ref_task_id) against the Schedule sched.
KindResult(kind, range, ref_task_id, sched) ==
    compute_intervals(kind, range, ref_task_id,
                      SchedulingContext_new(sched, solution_space))

\* A run of adds alone, from the empty Schedule.
NextAdds == AddStep

SpecAdds == Init /\ [][NextAdds]_vars

\* C23: over a run of adds, for every kind, query range and reference task
\* id, the result changes only at the step that commits the reference task
\* and so at most once, the reference task never leaving the Schedule;
\* Dependence and Consecutive do not go back to the empty set and Exclusive
\* does not leave it.
C23_ChangeOnlyAtCommit ==
    [][schedule' # schedule =>
        \A kind \in DynConstraintKinds, range \in Intervals, ref_task_id \in TaskIds :
            LET before == KindResult(kind, range, ref_task_id, schedule)
                after == KindResult(kind, range, ref_task_id, schedule')
            IN  /\ contains_task(schedule, ref_task_id) =>
                      contains_task(schedule', ref_task_id) /\ after = before
                /\ after # before =>
                      /\ ~contains_task(schedule, ref_task_id)
                      /\ contains_task(schedule', ref_task_id)
                /\ (kind \in {"Dependence", "Consecutive"} /\ before # << >>) =>
                      after # << >>
                /\ (kind = "Exclusive" /\ before = << >>) => after = << >>
    ]_vars

\* C23 witness: the last add committed a task next to an earlier placement,
\* and for some query range Consecutive on that task, empty before the
\* commit, returns a window after it.
C23_Witness ==
    /\ result.op = "add" /\ result.err = "Ok"
    /\ Cardinality(schedule) >= 2
    /\ \E range \in Intervals :
          /\ KindResult("Consecutive", range, result.task_id, schedule) # << >>
          /\ KindResult("Consecutive", range, result.task_id,
                        {p \in schedule : p.id # result.task_id}) = << >>

\* iv lies inside w.
Inside(iv, w) == w.start <= iv.start /\ iv.end <= w.end

\* C24: every interval Consecutive returns lies inside the query range and
\* starts at or after the end of the reference task's placement, so a target
\* interval inside it does not overlap that placement, and no add of it
\* fails with an overlap that names the reference task.
C24_ConsecutiveClearOfReference ==
    Evaluated("Consecutive") =>
        \A i \in 1..Len(result.out) :
            LET w == result.out[i] IN
            /\ Inside(w, result.interval)
            /\ \A p \in schedule :
                  p.id = result.task_id =>
                     /\ p.interval.end <= w.start
                     /\ \A target \in Intervals :
                           Inside(target, w) =>
                              /\ ~overlaps(target, p.interval)
                              /\ \A task_id \in TaskIds :
                                    \A o \in add(schedule, task_id, target) :
                                       ~(o.err = "OverlapsExisting"
                                           /\ o.existing_id = result.task_id)

\* C24 witness: Consecutive returns a window after a reference placement of
\* positive width, and a target of positive width inside it can be added
\* for a task that is not placed.
C24_Witness ==
    /\ Evaluated("Consecutive")
    /\ result.out # << >>
    /\ \E p \in schedule :
          /\ p.id = result.task_id
          /\ duration(p.interval) > 0
          /\ \E target \in Intervals, task_id \in TaskIds \ PlacedIds :
                /\ duration(target) > 0
                /\ Inside(target, result.out[1])
                /\ \E o \in add(schedule, task_id, target) : o.err = "Ok"

---------------------------------------------------------------------------
\* C25: for a task of positive size with canonical windows and any horizon,
\* compute_est returns a value exactly when compute_deadline does on the
\* same arguments, and then est <= deadline.
C25_EstBeforeDeadline ==
    /\ Returned("compute_est") =>
          LET deadline == compute_deadline(result.task, result.task_id,
                                           solution_space, result.horizon)
          IN  /\ result.out.some <=> deadline.some
              /\ result.out.some => result.out.value <= deadline.value
    /\ Returned("compute_deadline") =>
          LET est == compute_est(result.task, result.task_id,
                                 solution_space, result.horizon)
          IN  /\ est.some <=> result.out.some
              /\ est.some => est.value <= result.out.value

\* C25 witness: with two windows that hold the task, compute_deadline
\* returns a start in the second, later than the est in the first.
C25_Witness ==
    /\ Returned("compute_deadline")
    /\ Len(WindowsOf(result.task_id)) = 2
    /\ result.out.some
    /\ LET est == compute_est(result.task, result.task_id,
                              solution_space, result.horizon)
       IN  /\ est = Some(WindowsOf(result.task_id)[1].start)
           /\ est.value < WindowsOf(result.task_id)[2].start
           /\ WindowsOf(result.task_id)[2].start <= result.out.value

====
